---- MODULE Spec2Model ----
(***************************************************************************)
(* PortHawk: the port-range grammar parser (src/args/parser.rs) and the    *)
(* configuration assembly built on it (src/input_parse.rs).                *)
(*                                                                         *)
(* A Rust String is modelled as a sequence of one-character strings, so    *)
(* that contains/split/trim/parse are computed character by character.     *)
(* A message built by format!("<text>{}", x) is the record                 *)
(* [fmt |-> "<text>", arg |-> x]: no format text of the program is a       *)
(* prefix of another, so the record and the rendered message determine     *)
(* each other.                                                             *)
(***************************************************************************)
EXTENDS Integers, Sequences, FiniteSets, TLC

VARIABLES pc, input, target_ports, result, rendered, result2, argv, outcome

vars == <<pc, input, target_ports, result, rendered, result2, argv, outcome>>

----------------------------------------------------------------------------
(* Bounds of the model and constants of the program *)

\* most comma-delimited segments in a generated port string
MaxSegs == 2

\* u16::MAX, the largest value parse::<u16>() accepts
U16_MAX == 65535

----------------------------------------------------------------------------
(* Characters and strings *)

Digits == <<"0", "1", "2", "3", "4", "5", "6", "7", "8", "9">>

IsDigit(c) == \E i \in 1..10 : Digits[i] = c

DigitVal(c) == (CHOOSE i \in 1..10 : Digits[i] = c) - 1

\* char::is_whitespace, on the characters the model uses
IsWhitespace(c) == c \in {" ", "\t", "\n"}

\* str::contains(char)
Contains(s, c) == \E i \in 1..Len(s) : s[i] = c

\* str::split(char): every piece between separators, empty pieces included
RECURSIVE Split(_, _)
Split(s, c) ==
    IF ~Contains(s, c) THEN <<s>>
    ELSE LET i == CHOOSE k \in 1..Len(s) :
                      s[k] = c /\ \A j \in 1..(k - 1) : s[j] # c
         IN  <<SubSeq(s, 1, i - 1)>> \o Split(SubSeq(s, i + 1, Len(s)), c)

\* str::trim: leading and trailing whitespace removed
RECURSIVE TrimStart(_)
TrimStart(s) ==
    IF s # <<>> /\ IsWhitespace(Head(s)) THEN TrimStart(Tail(s)) ELSE s

RECURSIVE TrimEnd(_)
TrimEnd(s) ==
    IF s # <<>> /\ IsWhitespace(s[Len(s)])
    THEN TrimEnd(SubSeq(s, 1, Len(s) - 1)) ELSE s

Trim(s) == TrimEnd(TrimStart(s))

----------------------------------------------------------------------------
(* Result<PortRange, String> *)

Single(p) == [tag |-> "Single", port |-> p]

Range(v) == [tag |-> "Range", ranges |-> v]

Ok(v) == [ok |-> TRUE, val |-> v]

Err(f, a) == [ok |-> FALSE, err |-> [fmt |-> f, arg |-> a]]

InvalidPort == "Invalid port: "

InvalidRangeFormat == "Invalid port range: "

InvalidRangeStart == "Invalid start port: "

InvalidRangeEnd == "Invalid end port: "

InvalidRangeOrder == "Start port is greater than end port: "

----------------------------------------------------------------------------
(* str::parse::<u16>() *)

ParseOk(n) == [ok |-> TRUE, val |-> n]

ParseErr(k) == [ok |-> FALSE, kind |-> k]

\* digits accumulated left to right with checked arithmetic
RECURSIVE FoldDigits(_, _)
FoldDigits(digits, acc) ==
    IF digits = <<>> THEN ParseOk(acc)
    ELSE IF ~IsDigit(Head(digits)) THEN ParseErr("InvalidDigit")
    ELSE LET n == acc * 10 + DigitVal(Head(digits))
         IN  IF n > U16_MAX THEN ParseErr("PosOverflow")
             ELSE FoldDigits(Tail(digits), n)

\* mutant: the bound of an 8-bit port
RECURSIVE FoldDigits_u8(_, _)
FoldDigits_u8(digits, acc) ==
    IF digits = <<>> THEN ParseOk(acc)
    ELSE IF ~IsDigit(Head(digits)) THEN ParseErr("InvalidDigit")
    ELSE LET n == acc * 10 + DigitVal(Head(digits))
         IN  IF n > 255 THEN ParseErr("PosOverflow")
             ELSE FoldDigits_u8(Tail(digits), n)

ParseU16_u8(src) ==
    IF src = <<>> THEN ParseErr("Empty")
    ELSE IF Len(src) = 1 /\ src[1] \in {"+", "-"} THEN ParseErr("InvalidDigit")
    ELSE FoldDigits_u8(IF src[1] = "+" THEN Tail(src) ELSE src, 0)

\* an empty string, a lone sign, a non-digit or a value above u16::MAX is an
\* error; one leading '+' is accepted, a leading '-' is not (unsigned)
ParseU16(src) ==
    IF src = <<>> THEN ParseErr("Empty")
    ELSE IF Len(src) = 1 /\ src[1] \in {"+", "-"} THEN ParseErr("InvalidDigit")
    ELSE FoldDigits(IF src[1] = "+" THEN Tail(src) ELSE src, 0)

----------------------------------------------------------------------------
(* parse_port_range *)

\* mutant: a segment without a dash accepted as the one-port range
ParseRange_single(range) ==
    LET ports == Split(range, "-") IN
    IF Len(ports) = 1
    THEN LET port == ParseU16(Trim(ports[1])) IN
         IF port.ok THEN Ok(<<port.val, port.val>>)
         ELSE Err(InvalidRangeFormat, range)
    ELSE IF Len(ports) # 2 THEN Err(InvalidRangeFormat, range)
    ELSE LET start == ParseU16(Trim(ports[1])) IN
         IF ~start.ok THEN Err(InvalidRangeStart, ports[1])
         ELSE LET end == ParseU16(Trim(ports[2])) IN
              IF ~end.ok THEN Err(InvalidRangeEnd, ports[2])
              ELSE IF start.val > end.val THEN Err(InvalidRangeOrder, range)
              ELSE Ok(<<start.val, end.val>>)

\* mutant: the end port parsed and reported before the start port
ParseRange_endfirst(range) ==
    LET ports == Split(range, "-") IN
    IF Len(ports) # 2 THEN Err(InvalidRangeFormat, range)
    ELSE LET end == ParseU16(Trim(ports[2])) IN
         IF ~end.ok THEN Err(InvalidRangeEnd, ports[2])
         ELSE LET start == ParseU16(Trim(ports[1])) IN
              IF ~start.ok THEN Err(InvalidRangeStart, ports[1])
              ELSE IF start.val > end.val THEN Err(InvalidRangeOrder, range)
              ELSE Ok(<<start.val, end.val>>)

\* mutant: start >= end rejected
ParseRange_ge(range) ==
    LET ports == Split(range, "-") IN
    IF Len(ports) # 2 THEN Err(InvalidRangeFormat, range)
    ELSE LET start == ParseU16(Trim(ports[1])) IN
         IF ~start.ok THEN Err(InvalidRangeStart, ports[1])
         ELSE LET end == ParseU16(Trim(ports[2])) IN
              IF ~end.ok THEN Err(InvalidRangeEnd, ports[2])
              ELSE IF start.val >= end.val THEN Err(InvalidRangeOrder, range)
              ELSE Ok(<<start.val, end.val>>)

\* mutant: the pair pushed as (end, start)
ParseRange_swap(range) ==
    LET ports == Split(range, "-") IN
    IF Len(ports) # 2 THEN Err(InvalidRangeFormat, range)
    ELSE LET start == ParseU16(Trim(ports[1])) IN
         IF ~start.ok THEN Err(InvalidRangeStart, ports[1])
         ELSE LET end == ParseU16(Trim(ports[2])) IN
              IF ~end.ok THEN Err(InvalidRangeEnd, ports[2])
              ELSE IF start.val > end.val THEN Err(InvalidRangeOrder, range)
              ELSE Ok(<<end.val, start.val>>)

\* the body of the loop over the comma-delimited segments: one segment to
\* its (start, end) pair, or to the error the loop returns with
ParseRange(range) ==
    LET ports == Split(range, "-") IN
    IF Len(ports) # 2 THEN Err(InvalidRangeFormat, range)
    ELSE LET start == ParseU16(Trim(ports[1])) IN
         IF ~start.ok THEN Err(InvalidRangeStart, ports[1])
         ELSE LET end == ParseU16(Trim(ports[2])) IN
              IF ~end.ok THEN Err(InvalidRangeEnd, ports[2])
              ELSE IF start.val > end.val THEN Err(InvalidRangeOrder, range)
              ELSE Ok(<<start.val, end.val>>)

\* mutant: a range already in port_ranges is not pushed again
RECURSIVE ParseRanges_dedup(_, _)
ParseRanges_dedup(ranges, port_ranges) ==
    IF ranges = <<>> THEN Ok(Range(port_ranges))
    ELSE LET r == ParseRange(Head(ranges)) IN
         IF ~r.ok THEN r
         ELSE IF \E i \in 1..Len(port_ranges) : port_ranges[i] = r.val
         THEN ParseRanges_dedup(Tail(ranges), port_ranges)
         ELSE ParseRanges_dedup(Tail(ranges), Append(port_ranges, r.val))

\* mutant: a malformed segment is skipped and the others are returned
RECURSIVE ParseRanges_skip(_, _)
ParseRanges_skip(ranges, port_ranges) ==
    IF ranges = <<>> THEN Ok(Range(port_ranges))
    ELSE LET r == ParseRange(Head(ranges)) IN
         IF ~r.ok THEN ParseRanges_skip(Tail(ranges), port_ranges)
         ELSE ParseRanges_skip(Tail(ranges), Append(port_ranges, r.val))

\* the loop: segments left to right, pushed onto port_ranges; the first
\* error returns from the function
RECURSIVE ParseRanges(_, _)
ParseRanges(ranges, port_ranges) ==
    IF ranges = <<>> THEN Ok(Range(port_ranges))
    ELSE LET r == ParseRange(Head(ranges)) IN
         IF ~r.ok THEN r
         ELSE ParseRanges(Tail(ranges), Append(port_ranges, r.val))

\* mutant: the single port trimmed before it is parsed
parse_port_range_trim(s) ==
    IF ~Contains(s, "-") /\ ~Contains(s, ",")
    THEN LET port == ParseU16(Trim(s)) IN
         IF port.ok THEN Ok(Single(port.val)) ELSE Err(InvalidPort, s)
    ELSE ParseRanges(Split(s, ","), <<>>)

parse_port_range(s) ==
    IF ~Contains(s, "-") /\ ~Contains(s, ",")
    THEN LET port == ParseU16(s) IN
         IF port.ok THEN Ok(Single(port.val)) ELSE Err(InvalidPort, s)
    ELSE ParseRanges(Split(s, ","), <<>>)

----------------------------------------------------------------------------
(* Canonical rendering of a PortRange: the decimal number of Single(p),   *)
(* the segments "start-end" joined by ',' in list order for a Range        *)

RECURSIVE ToDecimal(_)
ToDecimal(n) ==
    IF n < 10 THEN <<Digits[n + 1]>>
    ELSE ToDecimal(n \div 10) \o <<Digits[(n % 10) + 1]>>

RECURSIVE JoinWith(_, _)
JoinWith(strs, sep) ==
    IF strs = <<>> THEN <<>>
    ELSE IF Len(strs) = 1 THEN strs[1]
    ELSE strs[1] \o <<sep>> \o JoinWith(Tail(strs), sep)

Canonical(v) ==
    IF v.tag = "Single" THEN ToDecimal(v.port)
    ELSE JoinWith([i \in 1..Len(v.ranges) |->
                      ToDecimal(v.ranges[i][1]) \o <<"-">>
                          \o ToDecimal(v.ranges[i][2])], ",")

----------------------------------------------------------------------------
(* Inputs: a port string is generated from its structure, a sequence of   *)
(* segments, each a sequence of tokens; a token carries its text and what  *)
(* an unsigned 16-bit parse of the trimmed text must give                  *)

Num(t, n) == [text |-> t, valid |-> TRUE, val |-> n]

NaN(t) == [text |-> t, valid |-> FALSE, val |-> 0]

\* tokens of range segments
RangeTokens ==
    { Num(<<"1">>, 1),
      Num(<<" ", "7", " ">>, 7),
      Num(<<"6", "5", "5", "3", "5">>, 65535),
      NaN(<<"6", "5", "5", "3", "6">>),
      NaN(<<"a">>),
      NaN(<<>>),
      Num(<<"0">>, 0),
      NaN(<<" ">>) }

\* tokens of the three-part segments
FewTokens == { Num(<<"1">>, 1), NaN(<<"a">>) }

\* lone tokens: port strings with neither '-' nor ','
LoneTokens ==
    { Num(<<"1">>, 1), Num(<<"0">>, 0), Num(<<"8", "0", "8", "0">>, 8080),
      Num(<<"6", "5", "5", "3", "5">>, 65535),
      Num(<<"0", "0", "7">>, 7), Num(<<"+", "7">>, 7),
      NaN(<<"6", "5", "5", "3", "6">>), NaN(<<"9", "9", "9", "9", "9", "9">>),
      NaN(<<"a", "b", "c">>), NaN(<<>>), NaN(<<" ", "8", "0">>),
      NaN(<<"8", "0", " ">>), NaN(<<"8", " ", "0">>), NaN(<<" ">>),
      NaN(<<"+">>), NaN(<<"+", "+", "1">>), NaN(<<"1", "a">>),
      NaN(<<"8", "0", ".", "0">>), NaN(<<"\t", "1">>) }

Segments ==
    { <<a>> : a \in RangeTokens }
    \cup { <<a, b>> : a \in RangeTokens, b \in RangeTokens }
    \cup { <<a, b, c>> : a \in FewTokens, b \in FewTokens, c \in FewTokens }

SeqsUpTo(S, n) == UNION { [1..k -> S] : k \in 1..n }

Inputs == SeqsUpTo(Segments, MaxSegs) \cup { <<<<t>>>> : t \in LoneTokens }

\* every port as its decimal string
PortInputs == { <<<<Num(ToDecimal(p), p)>>>> : p \in 0..U16_MAX }

SegText(seg) == JoinWith([i \in 1..Len(seg) |-> seg[i].text], "-")

InputText(in) == JoinWith([i \in 1..Len(in) |-> SegText(in[i])], ",")

----------------------------------------------------------------------------
(* The state machine *)

None == [none |-> TRUE]

InitWith(S) ==
    /\ input \in S
    /\ target_ports = InputText(input)
    /\ pc = "input"
    /\ result = None
    /\ rendered = <<>>
    /\ result2 = None
    /\ argv = None
    /\ outcome = None

Init == InitWith(Inputs)

InitPort == InitWith(PortInputs)

\* parse_port_range(target_ports)
Call ==
    /\ pc = "input"
    /\ result' = parse_port_range(target_ports)
    /\ pc' = "parsed"
    /\ UNCHANGED <<input, target_ports, rendered, result2, argv, outcome>>

\* the canonical string of the PortRange returned
Render ==
    /\ pc = "parsed"
    /\ result.ok
    /\ rendered' = Canonical(result.val)
    /\ pc' = "rendered"
    /\ UNCHANGED <<input, target_ports, result, result2, argv, outcome>>

\* parse_port_range(rendered)
Reparse ==
    /\ pc = "rendered"
    /\ result2' = parse_port_range(rendered)
    /\ pc' = "reparsed"
    /\ UNCHANGED <<input, target_ports, result, rendered, argv, outcome>>

----------------------------------------------------------------------------
(* Args::new *)

\* default_value of --ports
DefaultPorts == <<"1", "-", "1", "0", "2", "4">>

\* the port string of --all-ports
AllPortsShorthand == <<"1", "-", "6", "5", "5", "3", "5">>

\* "1-1024,3000-4000", the example of the --ports help text
HelpExample ==
    <<"1", "-", "1", "0", "2", "4", ",", "3", "0", "0", "0", "-", "4", "0", "0", "0">>

\* port strings given to --ports
ArgPortStrings ==
    { InputText(in) : in \in { i \in Inputs : Len(i) = 1 } } \cup {HelpExample}

\* the command line: --ports given (<<s>>) or not (<<>>), --all-ports given
\* or not, and the values of the other arguments
ArgvSet ==
    [ ports : {<<>>} \cup { <<s>> : s \in ArgPortStrings },
      all_ports : BOOLEAN,
      address : {"127.0.0.1", "::1"},
      threads : {1, 8},
      timeout : {1000, 50},
      output : {<<>>, <<"scan.txt">>} ]

\* CliArgs::parse(): --ports and --all-ports conflict (a default value is
\* not a given argument); on a conflict clap reports the usage error and
\* the process exits
CliArgs_parse(a) ==
    IF a.ports # <<>> /\ a.all_ports THEN [ok |-> FALSE]
    ELSE [ok |-> TRUE,
          cli |-> [address |-> a.address,
                   ports |-> IF a.ports = <<>> THEN DefaultPorts ELSE a.ports[1],
                   all_ports |-> a.all_ports,
                   threads |-> a.threads,
                   timeout |-> a.timeout,
                   output |-> a.output]]

\* mutant: the flag ignored
TargetPorts_ports(cli) == cli.ports

\* let target_ports = if cli.all_ports { "1-65535" } else { cli.ports }
TargetPorts(cli) ==
    IF cli.all_ports THEN AllPortsShorthand ELSE cli.ports

\* mutant: unwrap_or(PortRange::Single(0)) in place of expect
Expect_fallback(r, msg) ==
    IF r.ok THEN [panicked |-> FALSE, val |-> r.val]
    ELSE [panicked |-> FALSE, val |-> Single(0)]

\* Result::expect(msg): the value, or a panic with "<msg>: <error:?>"
Expect(r, msg) ==
    IF r.ok THEN [panicked |-> FALSE, val |-> r.val]
    ELSE [panicked |-> TRUE, msg |-> [fmt |-> msg, debug |-> r.err]]

Args_new(a) ==
    LET parsed == CliArgs_parse(a) IN
    IF ~parsed.ok THEN [kind |-> "usage_error"]
    ELSE LET cli == parsed.cli
             ports == Expect(parse_port_range(TargetPorts(cli)),
                             "Failed to parse ports range.")
         IN  IF ports.panicked THEN [kind |-> "panic", msg |-> ports.msg]
             ELSE [kind |-> "ok",
                   args |-> [ports |-> ports.val,
                             address |-> cli.address,
                             threads |-> cli.threads,
                             timeout |-> cli.timeout,
                             output |-> cli.output]]

InitArgs ==
    /\ argv \in ArgvSet
    /\ pc = "args"
    /\ input = <<>>
    /\ target_ports = <<>>
    /\ result = None
    /\ rendered = <<>>
    /\ result2 = None
    /\ outcome = None

\* Args::new()
ArgsNew ==
    /\ pc = "args"
    /\ outcome' = Args_new(argv)
    /\ pc' = "done"
    /\ UNCHANGED <<input, target_ports, result, rendered, result2, argv>>

Next == Call \/ Render \/ Reparse

Spec == Init /\ [][Next]_vars

SpecPort == InitPort /\ [][Next]_vars

NextArgs == ArgsNew

SpecArgs == InitArgs /\ [][NextArgs]_vars

----------------------------------------------------------------------------
(* What a port string must parse to, read off the structure it was        *)
(* generated from                                                          *)

Parsed == pc \in {"parsed", "rendered", "reparsed"}

\* the string has neither '-' nor ','
IsLone == Len(input) = 1 /\ Len(input[1]) = 1

LoneToken == input[1][1]

WellFormed(seg) ==
    /\ Len(seg) = 2
    /\ seg[1].valid
    /\ seg[2].valid
    /\ seg[1].val <= seg[2].val

HasBad == \E k \in 1..Len(input) : ~WellFormed(input[k])

\* the first segment that is not well-formed
FirstBad ==
    input[CHOOSE k \in 1..Len(input) :
              ~WellFormed(input[k]) /\ \A j \in 1..(k - 1) : WellFormed(input[j])]

TwoParts(seg) == Len(seg) = 2

\* the error of a segment that is not well-formed
SegErr(seg) ==
    IF Len(seg) # 2 THEN Err(InvalidRangeFormat, SegText(seg))
    ELSE IF ~seg[1].valid THEN Err(InvalidRangeStart, seg[1].text)
    ELSE IF ~seg[2].valid THEN Err(InvalidRangeEnd, seg[2].text)
    ELSE Err(InvalidRangeOrder, SegText(seg))

----------------------------------------------------------------------------
(* Claims *)

\* C1 as stated: with the "all ports" flag set, the PortSelection of the
\* resulting configuration is RangeList([(0,65535)]).
C1_AllPortsFromZero ==
    (pc = "done" /\ argv.all_ports /\ outcome.kind = "ok")
        => outcome.args.ports = Range(<<<<0, 65535>>>>)

\* C1 amended: with the "all ports" flag set, the PortSelection of every
\* resulting configuration is RangeList([(1,65535)]), the parse of "1-65535",
\* whatever the port string of the parsed command line is.
C1_AllPortsFromOne ==
    (pc = "done" /\ argv.all_ports /\ outcome.kind = "ok")
        => outcome.args.ports = Range(<<<<1, 65535>>>>)

C1_Witness ==
    /\ pc = "done"
    /\ argv.all_ports
    /\ outcome.kind = "ok"
    /\ outcome.args.ports = Range(<<<<1, 65535>>>>)
    /\ outcome.args.ports # parse_port_range(DefaultPorts).val

\* the flag is off and the parser fails on the port string given
ParserFails ==
    /\ pc = "done"
    /\ ~argv.all_ports
    /\ argv.ports # <<>>
    /\ ~parse_port_range(argv.ports[1]).ok

\* C2 as stated: when the flag is off and the parser fails, Args::new returns
\* a failure that is exactly the parser's error.
C2_ErrorReturnedUnchanged ==
    ParserFails =>
        outcome = [kind |-> "err", err |-> parse_port_range(argv.ports[1]).err]

\* C2 amended: when the flag is off and the parser fails, Args::new produces
\* no configuration and returns nothing: it panics, and the panic message is
\* "Failed to parse ports range." followed by the Debug rendering of the
\* parser's error message.
C2_PanicsWithWrappedError ==
    ParserFails =>
        /\ outcome.kind = "panic"
        /\ outcome.msg = [fmt |-> "Failed to parse ports range.",
                          debug |-> parse_port_range(argv.ports[1]).err]

C2_Witness ==
    /\ ParserFails
    /\ outcome.kind = "panic"
    /\ outcome.msg.debug = Err(InvalidRangeOrder, <<" ", "7", " ", "-", "1">>).err

\* C3: the decimal string of every port p in 0..65535 parses to Single(p).
C3_DecimalParsesToSingle ==
    (Parsed /\ IsLone /\ LoneToken.valid
        /\ LoneToken.text = ToDecimal(LoneToken.val))
        => result = Ok(Single(LoneToken.val))

C3_Witness ==
    /\ Parsed
    /\ IsLone
    /\ target_ports = <<"6", "5", "5", "3", "5">>
    /\ result = Ok(Single(65535))

\* C4: a string with neither '-' nor ',' that is not an unsigned 16-bit
\* integer fails with InvalidPort carrying the string verbatim.
C4_InvalidPortVerbatim ==
    (Parsed /\ IsLone /\ ~LoneToken.valid)
        => result = Err(InvalidPort, target_ports)

C4_Witness ==
    /\ Parsed
    /\ target_ports = <<" ", "8", "0">>
    /\ result = Err(InvalidPort, <<" ", "8", "0">>)

\* C5: when the first segment that is not well-formed has a number of
\* dash-delimited parts other than two, the parse fails with
\* InvalidRangeFormat citing that segment verbatim.
C5_InvalidRangeFormat ==
    (Parsed /\ ~IsLone /\ HasBad /\ ~TwoParts(FirstBad))
        => result = Err(InvalidRangeFormat, SegText(FirstBad))

C5_Witness ==
    /\ Parsed
    /\ Len(input) = 2
    /\ WellFormed(input[1])
    /\ Len(input[2]) = 1
    /\ input[2][1].valid
    /\ result = Err(InvalidRangeFormat, input[2][1].text)

\* C6: in a segment of two parts, a first part that is not an unsigned
\* 16-bit integer fails with InvalidRangeStart citing the first part,
\* whatever the second part is; a valid first part and an invalid second
\* part fail with InvalidRangeEnd citing the second part. A value above
\* 65535 is such an invalid part.
C6_InvalidStartOrEnd ==
    (Parsed /\ ~IsLone /\ HasBad /\ TwoParts(FirstBad))
        => /\ ~FirstBad[1].valid
                => result = Err(InvalidRangeStart, FirstBad[1].text)
           /\ (FirstBad[1].valid /\ ~FirstBad[2].valid)
                => result = Err(InvalidRangeEnd, FirstBad[2].text)

C6_Witness ==
    /\ Parsed
    /\ Len(input) = 1
    /\ TwoParts(input[1])
    /\ ~input[1][2].valid
    /\ result = Err(InvalidRangeStart, <<"6", "5", "5", "3", "6">>)

\* the parse failed with InvalidRangeOrder
OrderError == ~result.ok /\ result.err.fmt = InvalidRangeOrder

\* C7: the parse fails with InvalidRangeOrder exactly when the first segment
\* that is not well-formed has two valid parts with start > end, and the
\* error cites that segment verbatim; start = end is accepted as
\* (start, start).
C7_InvalidRangeOrder ==
    (Parsed /\ ~IsLone)
        => /\ OrderError <=>
                (HasBad /\ TwoParts(FirstBad) /\ FirstBad[1].valid
                    /\ FirstBad[2].valid /\ FirstBad[1].val > FirstBad[2].val)
           /\ OrderError => result.err.arg = SegText(FirstBad)
           /\ ~HasBad =>
                /\ result.ok
                /\ \A k \in 1..Len(input) :
                       input[k][1].val = input[k][2].val
                           => result.val.ranges[k]
                                  = <<input[k][1].val, input[k][1].val>>

C7_Witness ==
    /\ Parsed
    /\ Len(input) = 2
    /\ WellFormed(input[1])
    /\ input[1][1].val = input[1][2].val
    /\ result = Err(InvalidRangeOrder, <<" ", "7", " ", "-", "1">>)

\* C8: a successful parse of a string with '-' or ',' is a Range, never a
\* Single, with one (start, end) pair per segment, in the order of the
\* segments, each with start <= end; equal and overlapping ranges are kept.
C8_RangeListMirrorsInput ==
    (Parsed /\ ~IsLone /\ result.ok)
        => /\ ~HasBad
           /\ result.val.tag = "Range"
           /\ Len(result.val.ranges) = Len(input)
           /\ Len(result.val.ranges) >= 1
           /\ \A k \in 1..Len(input) :
                  /\ result.val.ranges[k] = <<input[k][1].val, input[k][2].val>>
                  /\ result.val.ranges[k][1] <= result.val.ranges[k][2]

C8_Witness ==
    /\ Parsed
    /\ result.ok
    /\ result.val = Range(<<<<1, 7>>, <<1, 7>>>>)

\* C9: the parse of a string with '-' or ',' succeeds only if every segment
\* is well-formed; otherwise the result is the error of the first segment
\* that is not well-formed, and it holds no list of ranges.
C9_FirstErrorOnly ==
    (Parsed /\ ~IsLone)
        => /\ result.ok <=> ~HasBad
           /\ HasBad => /\ result = SegErr(FirstBad)
                         /\ DOMAIN result = {"ok", "err"}

C9_Witness ==
    /\ Parsed
    /\ Len(input) = 2
    /\ WellFormed(input[1])
    /\ ~WellFormed(input[2])
    /\ result = SegErr(input[2])
    /\ result.err.fmt = InvalidRangeEnd

\* C10: the canonical string of every PortRange the parser returns parses
\* to the same PortRange.
C10_RoundTrip ==
    pc = "reparsed" => result2 = result

C10_Witness ==
    /\ pc = "reparsed"
    /\ result.val.tag = "Range"
    /\ Len(result.val.ranges) = 2
    /\ rendered # target_ports
    /\ result2 = result

====
